---- MODULE Spec2Model ----
(***************************************************************************)
(* A model of treasure-search (src/src/core.rs, src/src/main.rs): the      *)
(* virtual machine that runs a 64-byte genome on the 7x7 game area, the    *)
(* fitness score, the two parent selections, reproduction (per-bit         *)
(* crossover and mutation) and random initialisation.                      *)
(*                                                                         *)
(* A Rust Vec is a sequence here; the code's 0-based v[i] is At(v, i).     *)
(* An index outside the Vec makes the Rust program panic: the model then   *)
(* moves to the pc value "panicked" instead of reading the sequence.       *)
(* f64 fitness values are exact rationals, kept as integer numerators      *)
(* over a stated denominator.                                              *)
(***************************************************************************)
EXTENDS Integers, Sequences, FiniteSets

VARIABLES
    \* which entry point of the program the behaviour exercises
    mode,
    \* run_virtual_machine: its arguments
    instructions, original_game_area, start_x, start_y, treasures,
    \* run_virtual_machine: its locals, `steps` being the caller's String
    game_area, machine_memory, curr_instr_index, iterations, found_treasures,
    player_x, player_y, steps, vm_pc, last_op,
    \* main: where it stands, and the chromosome it evaluates (struct
    \* Chromosome; fitness in units of 1/(200 * treasures))
    main_pc, chromosome,
    \* one call of calculate_fitness: arguments, result, position
    fit,
    \* repeated calls of cyclic_increment_u8 / cyclic_decrement_u8 on one cell
    arith,
    \* one call of reproduce: arguments, loop index, output_vector, position
    rep,
    \* one call of random_instructions: loop index, output, position
    rnd,
    \* one call of selection_roulette / selection_tournament
    sel,
    \* one run of main: its command line, its locals, its position
    run

vmVars == <<instructions, original_game_area, start_x, start_y, treasures,
            game_area, machine_memory, curr_instr_index, iterations,
            found_treasures, player_x, player_y, steps, vm_pc, last_op>>

mainVars == <<main_pc, chromosome>>

\* what each entry point leaves alone
notVM == <<mainVars, fit, arith, rep, rnd, sel, run>>
notMain == <<vmVars, fit, arith, rep, rnd, sel, run>>
notFit == <<vmVars, mainVars, arith, rep, rnd, sel, run>>
notArith == <<vmVars, mainVars, fit, rep, rnd, sel, run>>
notRep == <<vmVars, mainVars, fit, arith, rnd, sel, run>>
notRnd == <<vmVars, mainVars, fit, arith, rep, sel, run>>
notSel == <<vmVars, mainVars, fit, arith, rep, rnd, run>>
notRun == <<vmVars, mainVars, fit, arith, rep, rnd, sel>>

vars == <<mode, vmVars, mainVars, fit, arith, rep, rnd, sel, run>>

----------------------------------------------------------------------------
\* Program constants

AREA_TILE_PLAYER == 1
AREA_TILE_TREASURE == 2
AREA_TILE_NOTHING == 0

DIR_UP == 0
DIR_RIGHT == 1
DIR_DOWN == 2
DIR_LEFT == 3

NUM_OF_CHILDREN == 2

\* vec![0; 64], for i in 0..64, curr_instr_index < 64
GenomeLen == 64
\* for i in 0..16
RandomLen == 16
\* iterations < 500
MaxIterations == 500
\* vec![vec![AREA_TILE_NOTHING; 7]; 7]
AreaSize == 7
\* u8::MAX
U8Max == 255

----------------------------------------------------------------------------
\* Bounds of the exploration

\* programs under test: the first ProgLen bytes vary, the rest are zero
ProgLen == 3

\* instruction bytes the programs under test are built from:
\* inc cell 0, dec cell 1, jump 0, jump 1, move up/right/down/left
ByteChoices == {0, 65, 128, 129, 192, 193, 194, 195}

\* (x, y) start positions handed to the machine: main's player tile, and a
\* tile of row 0 right above a treasure
StartChoices == {<<3, 6>>, <<4, 0>>}

\* treasure goals handed to the machine
GoalChoices == {0, 1, 5}

----------------------------------------------------------------------------
\* Vec helpers

At(v, i) == v[i + 1]

InVec(v, i) == i >= 0 /\ i < Len(v)

SetAt(v, i, x) == [v EXCEPT ![i + 1] = x]

Zeros(n) == [i \in 1..n |-> 0]

\* isize as usize: a negative value wraps to an index near the top of usize,
\* outside every Vec (the model's integers are 32 bits wide, so the wrap is
\* by 2^30 here instead of 2^64)
AsUsize(i) == IF i < 0 THEN i + 1073741824 ELSE i

----------------------------------------------------------------------------
\* core.rs

cyclic_increment_u8(n) ==
    IF n = U8Max THEN 0 ELSE n + 1

cyclic_decrement_u8(n) ==
    IF n = 0 THEN 0 ELSE n - 1

\* build_game_area mutated to leave out the treasure of row 3
build_game_area_four ==
    LET tile(y, x) ==
            IF <<y, x>> \in {<<1, 4>>, <<2, 2>>, <<4, 1>>, <<5, 4>>}
            THEN AREA_TILE_TREASURE
            ELSE IF <<y, x>> = <<6, 3>> THEN AREA_TILE_PLAYER
            ELSE AREA_TILE_NOTHING
    IN  [y \in 1..AreaSize |-> [x \in 1..AreaSize |-> tile(y - 1, x - 1)]]

build_game_area ==
    LET tile(y, x) ==
            IF <<y, x>> \in {<<1, 4>>, <<2, 2>>, <<3, 6>>, <<4, 1>>, <<5, 4>>}
            THEN AREA_TILE_TREASURE
            ELSE IF <<y, x>> = <<6, 3>> THEN AREA_TILE_PLAYER
            ELSE AREA_TILE_NOTHING
    IN  [y \in 1..AreaSize |-> [x \in 1..AreaSize |-> tile(y - 1, x - 1)]]

\* instruction & 0xC0
OperationOf(instruction) == (instruction \div 64) * 64

\* instruction & 0x3F
DataOf(instruction) == instruction % 64

\* the while condition mutated to let the instruction pointer reach 64
LoopCondOffByOne ==
    /\ iterations < MaxIterations
    /\ curr_instr_index <= GenomeLen
    /\ found_treasures < treasures

\* the while condition mutated to drop the cap on the iterations
LoopCondNoCap ==
    /\ curr_instr_index < GenomeLen
    /\ found_treasures < treasures

\* the while condition of run_virtual_machine
LoopCond ==
    /\ iterations < MaxIterations
    /\ curr_instr_index < GenomeLen
    /\ found_treasures < treasures

\* the bounds check mutated to test the upper limits only
InAreaUpperOnly(x, y) ==
    /\ x < Len(original_game_area[1])
    /\ y < Len(original_game_area)

\* the bounds check after a Move
InArea(x, y) ==
    /\ x >= 0
    /\ x < Len(original_game_area[1])
    /\ y >= 0
    /\ y < Len(original_game_area)

Panic(op) ==
    /\ vm_pc' = "panicked"
    /\ last_op' = op
    /\ UNCHANGED <<game_area, machine_memory, curr_instr_index, iterations,
                   found_treasures, player_x, player_y, steps>>

\* the end of the step mutated to leave the instruction index where it is
EndOfStepNoAdvance(jump, target) ==
    /\ iterations' = iterations + 1
    /\ curr_instr_index' = IF jump THEN target ELSE curr_instr_index
    /\ vm_pc' = "loop"

\* iterations += 1; if !jump { curr_instr_index += 1; }
EndOfStep(jump, target) ==
    /\ iterations' = iterations + 1
    /\ curr_instr_index' = IF jump THEN target ELSE curr_instr_index + 1
    /\ vm_pc' = "loop"

Increment(data) ==
    IF ~InVec(machine_memory, data) THEN Panic("increment")
    ELSE /\ machine_memory' =
                SetAt(machine_memory, data, cyclic_increment_u8(At(machine_memory, data)))
         /\ EndOfStep(FALSE, 0)
         /\ last_op' = "increment"
         /\ UNCHANGED <<game_area, found_treasures, player_x, player_y, steps>>

Decrement(data) ==
    IF ~InVec(machine_memory, data) THEN Panic("decrement")
    ELSE /\ machine_memory' =
                SetAt(machine_memory, data, cyclic_decrement_u8(At(machine_memory, data)))
         /\ EndOfStep(FALSE, 0)
         /\ last_op' = "decrement"
         /\ UNCHANGED <<game_area, found_treasures, player_x, player_y, steps>>

\* Jump mutated to forget the jump flag: the index is advanced past the target
JumpThenAdvance(data) ==
    /\ EndOfStep(TRUE, data + 1)
    /\ last_op' = "jump"
    /\ UNCHANGED <<game_area, machine_memory, found_treasures, player_x,
                   player_y, steps>>

Jump(data) ==
    /\ EndOfStep(TRUE, data)
    /\ last_op' = "jump"
    /\ UNCHANGED <<game_area, machine_memory, found_treasures, player_x,
                   player_y, steps>>

\* the break mutated to run the end of the step first
MoveOutCounted ==
    /\ vm_pc' = "returned"
    /\ last_op' = "move_out"
    /\ iterations' = iterations + 1
    /\ curr_instr_index' = curr_instr_index + 1
    /\ UNCHANGED <<game_area, machine_memory, found_treasures>>

\* break: the loop is left at once, `iterations += 1` is not reached
MoveOut ==
    /\ vm_pc' = "returned"
    /\ last_op' = "move_out"
    /\ UNCHANGED <<game_area, machine_memory, curr_instr_index, iterations,
                   found_treasures>>

\* the pickup mutated to leave the treasure on its tile
PickUpNoClear(nx, ny) ==
    IF At(At(game_area, ny), nx) = AREA_TILE_TREASURE
    THEN /\ found_treasures' = found_treasures + 1
         /\ UNCHANGED game_area
    ELSE UNCHANGED <<game_area, found_treasures>>

\* a treasure on the tile moved onto is taken off the grid and counted
PickUp(nx, ny) ==
    IF At(At(game_area, ny), nx) = AREA_TILE_TREASURE
    THEN /\ game_area' = SetAt(game_area, ny, SetAt(At(game_area, ny), nx, 0))
         /\ found_treasures' = found_treasures + 1
    ELSE UNCHANGED <<game_area, found_treasures>>

Move(data) ==
    LET dir == data % 4
        sym == CASE dir = DIR_UP -> "H"
                 [] dir = DIR_RIGHT -> "P"
                 [] dir = DIR_DOWN -> "D"
                 [] dir = DIR_LEFT -> "L"
        nx  == CASE dir = DIR_RIGHT -> player_x + 1
                 [] dir = DIR_LEFT -> player_x - 1
                 [] OTHER -> player_x
        ny  == CASE dir = DIR_UP -> player_y - 1
                 [] dir = DIR_DOWN -> player_y + 1
                 [] OTHER -> player_y
    IN  /\ steps' = Append(steps, sym)
        /\ player_x' = nx
        /\ player_y' = ny
        /\ IF ~InArea(nx, ny)
           THEN MoveOut
           ELSE IF ~(InVec(game_area, AsUsize(ny))
                     /\ InVec(At(game_area, AsUsize(ny)), AsUsize(nx)))
           THEN /\ vm_pc' = "panicked"
                /\ last_op' = "move"
                /\ UNCHANGED <<game_area, machine_memory, curr_instr_index,
                               iterations, found_treasures>>
           ELSE /\ PickUp(nx, ny)
                /\ EndOfStep(FALSE, 0)
                /\ last_op' = "move"
                /\ UNCHANGED machine_memory

\* the clones mutated away: the machine writes the caller's own vectors
CallerFrameAliased ==
    /\ instructions' = machine_memory'
    /\ original_game_area' = game_area'

\* let mut game_area = game_area.clone(); let mut machine_memory =
\* instructions.clone(): the writes of a step go to the clones
CallerFrame == UNCHANGED <<instructions, original_game_area>>

\* one pass through the body of the while loop
VMStep ==
    /\ mode \in {"vm", "main"}
    /\ vm_pc = "loop"
    /\ LoopCond
    /\ IF ~InVec(machine_memory, curr_instr_index) THEN Panic("fetch")
       ELSE LET instruction == At(machine_memory, curr_instr_index)
                operation == OperationOf(instruction)
                data == DataOf(instruction)
            IN  CASE operation = 0 -> Increment(data)
                  [] operation = 64 -> Decrement(data)
                  [] operation = 128 -> Jump(data)
                  [] operation = 192 -> Move(data)
    /\ CallerFrame
    /\ UNCHANGED <<mode, start_x, start_y, treasures, notVM>>

\* the while condition fails: return (iterations, found_treasures)
VMReturn ==
    /\ mode \in {"vm", "main"}
    /\ vm_pc = "loop"
    /\ ~LoopCond
    /\ vm_pc' = "returned"
    /\ last_op' = "exit"
    /\ UNCHANGED <<mode, instructions, original_game_area, start_x, start_y,
                   treasures, game_area, machine_memory, curr_instr_index,
                   iterations, found_treasures, player_x, player_y, steps,
                   notVM>>

\* the programs under test
Programs ==
    {p \o Zeros(GenomeLen - ProgLen) : p \in [1..ProgLen -> ByteChoices]}

\* Chromosome { genes, found_treasures: 0, fitness: 0.0, iterations: 0, steps: String::new() }
with_instructions(genes) ==
    [genes |-> genes, found_treasures |-> 0, fitness |-> 0, iterations |-> 0,
     steps |-> <<>>]

\* main's command line and locals while a single entry point is exercised
NoRun ==
    [pc |-> "idle", args |-> <<>>, subjects_num |-> 0, target_generations |-> 0,
     mutation_probability |-> 0, selection_method |-> 0, player_x |-> 0,
     player_y |-> 0, treasures |-> 0, generations |-> 0,
     current_generation |-> <<>>, new_generation |-> <<>>, stderr |-> <<>>]

\* main's variables while another entry point is exercised
MainIdle ==
    /\ main_pc = "idle"
    /\ chromosome = with_instructions(<<>>)

NoRep == [pc |-> "idle", parent1 |-> <<>>, parent2 |-> <<>>,
          mutation_probability |-> 0, i |-> 0, output_vector |-> <<>>,
          mutated |-> 0]

NoRnd == [pc |-> "idle", i |-> 0, output |-> <<>>]

\* Option::None, where the code holds an Option<&Chromosome>
None == -1

NoSel == [pc |-> "idle", method |-> "none", chromosomes |-> <<>>,
          total_fitness |-> 0, draws |-> <<>>, v |-> <<>>]

NoFit == [pc |-> "idle", steps |-> 0, found_treasures |-> 0, all_treasures |-> 1,
          fitness |-> 0]

\* the state of run_virtual_machine at its while loop, first pass
VMEntry(prog, area, x, y, goal) ==
    /\ instructions = prog
    /\ original_game_area = area
    /\ start_x = x
    /\ start_y = y
    /\ treasures = goal
    /\ game_area = area
    /\ machine_memory = prog
    /\ curr_instr_index = 0
    /\ iterations = 0
    /\ found_treasures = 0
    /\ player_x = x
    /\ player_y = y
    /\ steps = <<>>
    /\ vm_pc = "loop"
    /\ last_op = "none"

\* the machine's variables while another entry point is exercised
VMIdle ==
    /\ instructions = <<>>
    /\ original_game_area = <<>>
    /\ start_x = 0
    /\ start_y = 0
    /\ treasures = 0
    /\ game_area = <<>>
    /\ machine_memory = <<>>
    /\ curr_instr_index = 0
    /\ iterations = 0
    /\ found_treasures = 0
    /\ player_x = 0
    /\ player_y = 0
    /\ steps = <<>>
    /\ vm_pc = "idle"
    /\ last_op = "none"

NoArith == [fn |-> "none", n |-> 0, value |-> 0, calls |-> 0]

InitVM ==
    /\ mode = "vm"
    /\ \E prog \in Programs, s \in StartChoices, goal \in GoalChoices :
          VMEntry(prog, build_game_area, s[1], s[2], goal)
    /\ MainIdle
    /\ fit = NoFit
    /\ arith = NoArith
    /\ rep = NoRep
    /\ rnd = NoRnd
    /\ sel = NoSel
    /\ run = NoRun

NextVM == VMStep \/ VMReturn

SpecVM == InitVM /\ [][NextVM]_vars

----------------------------------------------------------------------------
\* cyclic_increment_u8 / cyclic_decrement_u8 applied again and again to a cell

\* number of calls made on one cell: once around the 8-bit range
ArithCalls == 256

InitArith ==
    /\ mode = "arith"
    /\ \E fn \in {"increment", "decrement"}, n \in 0..U8Max :
          arith = [fn |-> fn, n |-> n, value |-> n, calls |-> 0]
    /\ VMIdle
    /\ MainIdle
    /\ fit = NoFit
    /\ rep = NoRep
    /\ rnd = NoRnd
    /\ sel = NoSel
    /\ run = NoRun

ArithIncrement ==
    /\ mode = "arith"
    /\ arith.fn = "increment"
    /\ arith.calls < ArithCalls
    /\ arith' = [arith EXCEPT !.value = cyclic_increment_u8(@), !.calls = @ + 1]
    /\ UNCHANGED <<mode, notArith>>

ArithDecrement ==
    /\ mode = "arith"
    /\ arith.fn = "decrement"
    /\ arith.calls < ArithCalls
    /\ arith' = [arith EXCEPT !.value = cyclic_decrement_u8(@), !.calls = @ + 1]
    /\ UNCHANGED <<mode, notArith>>

NextArith == ArithIncrement \/ ArithDecrement

SpecArith == InitArith /\ [][NextArith]_vars

----------------------------------------------------------------------------
\* calculate_fitness, and main's evaluation of one chromosome

\* 0.005 = 1 / 200
PenaltyDen == 200

\* A fitness value is the numerator of a fraction over FitnessDen(all):
\* found / all - steps * 0.005 = (200 * found - steps * all) / (200 * all).
FitnessDen(all_treasures) == PenaltyDen * all_treasures

\* calculate_fitness mutated to drop the clamp at 0.0
calculate_fitness_unclamped(step_count, found, all_treasures) ==
    PenaltyDen * found - step_count * all_treasures

\* calculate_fitness mutated to drop the step penalty
calculate_fitness_no_penalty(step_count, found, all_treasures) ==
    LET fitness == PenaltyDen * found
    IN  IF fitness < 0 THEN 0 ELSE fitness

calculate_fitness(step_count, found, all_treasures) ==
    LET fitness == PenaltyDen * found - step_count * all_treasures
    IN  IF fitness < 0 THEN 0 ELSE fitness

\* main.rs computes the same score inline, from steps.len()
MainFitness(step_count, found, all_treasures) ==
    LET fitness == PenaltyDen * found - step_count * all_treasures
    IN  IF fitness < 0 THEN 0 ELSE fitness

\* largest step count and treasure total handed to calculate_fitness
MaxStepCount == 210
MaxAllTreasures == 5

InitFitness ==
    /\ mode = "fitness"
    /\ \E sc \in 0..MaxStepCount, all \in 1..MaxAllTreasures :
          \E found \in 0..all :
             fit = [pc |-> "call", steps |-> sc, found_treasures |-> found,
                    all_treasures |-> all, fitness |-> 0]
    /\ VMIdle
    /\ MainIdle
    /\ arith = NoArith
    /\ rep = NoRep
    /\ rnd = NoRnd
    /\ sel = NoSel
    /\ run = NoRun

FitnessCall ==
    /\ mode = "fitness"
    /\ fit.pc = "call"
    /\ fit' = [fit EXCEPT
                  !.fitness = calculate_fitness(fit.steps, fit.found_treasures,
                                                fit.all_treasures),
                  !.pc = "returned"]
    /\ UNCHANGED <<mode, notFit>>

\* main.rs 53-67: the scan of the game area for the player tile
ScanPlayer(area) ==
    CHOOSE xy \in (0..(Len(area[1]) - 1)) \X (0..(Len(area) - 1)) :
        At(At(area, xy[2]), xy[1]) = AREA_TILE_PLAYER

\* main.rs 53-67: the scan of the game area counting the treasure tiles
RECURSIVE CountRow(_, _)
CountRow(row, tile) ==
    IF row = <<>> THEN 0
    ELSE (IF Head(row) = tile THEN 1 ELSE 0) + CountRow(Tail(row), tile)

RECURSIVE CountTiles(_, _)
CountTiles(area, tile) ==
    IF area = <<>> THEN 0
    ELSE CountRow(Head(area), tile) + CountTiles(Tail(area), tile)

\* main: one chromosome of the current generation about to be run
InitMain ==
    /\ mode = "main"
    /\ main_pc = "run_virtual_machine"
    /\ \E genes \in Programs :
          /\ chromosome = with_instructions(genes)
          /\ VMEntry(genes, build_game_area,
                     ScanPlayer(build_game_area)[1], ScanPlayer(build_game_area)[2],
                     CountTiles(build_game_area, AREA_TILE_TREASURE))
    /\ fit = NoFit
    /\ arith = NoArith
    /\ rep = NoRep
    /\ rnd = NoRnd
    /\ sel = NoSel
    /\ run = NoRun

\* main.rs 115-125: score the run and write the results onto the chromosome
Evaluate ==
    /\ mode = "main"
    /\ main_pc = "run_virtual_machine"
    /\ vm_pc = "returned"
    /\ chromosome' = [chromosome EXCEPT
                         !.found_treasures = found_treasures,
                         !.iterations = iterations,
                         !.steps = steps,
                         !.fitness = MainFitness(Len(steps), found_treasures, treasures)]
    /\ main_pc' = "evaluated"
    /\ UNCHANGED <<mode, notMain>>

\* main's call of run_virtual_machine on its own. The call is sequential
\* code: while it can take its next step, it takes it.
SpecVMFair == InitMain /\ [][NextVM]_vars /\ WF_vars(NextVM)

\* run_virtual_machine called once more with the arguments of the call that
\* has just been scored: the chromosome's genes, main's grid, the player
\* position and the treasure count
RunAgain ==
    /\ mode = "main"
    /\ main_pc = "evaluated"
    /\ game_area' = original_game_area
    /\ machine_memory' = instructions
    /\ curr_instr_index' = 0
    /\ iterations' = 0
    /\ found_treasures' = 0
    /\ player_x' = start_x
    /\ player_y' = start_y
    /\ steps' = <<>>
    /\ vm_pc' = "loop"
    /\ last_op' = "none"
    /\ main_pc' = "run_again"
    /\ UNCHANGED <<mode, instructions, original_game_area, start_x, start_y,
                   treasures, chromosome, fit, arith, rep, rnd, sel, run>>

NextRerun == VMStep \/ VMReturn \/ Evaluate \/ RunAgain

SpecRerun == InitMain /\ [][NextRerun]_vars

InitEval == InitFitness \/ InitMain

NextEval == FitnessCall \/ VMStep \/ VMReturn \/ Evaluate

SpecEval == InitEval /\ [][NextEval]_vars

----------------------------------------------------------------------------
\* reproduce and random_instructions

\* Probabilities are in percent. rng.gen_bool(p) never comes out true for
\* p = 0.0, always for p = 1.0, and either way in between.
GenBoolCoin(p) == BOOLEAN

GenBool(p) ==
    IF p = 0 THEN {FALSE}
    ELSE IF p = 100 THEN {TRUE}
    ELSE BOOLEAN

\* gene & mask, for a mask of one bit
BitAnd(gene, mask) == ((gene \div mask) % 2) * mask

\* number |= bit, for a bit under mask
OrBit(number, bit, mask) ==
    IF BitAnd(number, mask) # 0 THEN number ELSE number + bit

\* number ^= mask
XorMask(number, mask) ==
    IF BitAnd(number, mask) # 0 THEN number - mask ELSE number + mask

\* the eight draws of one gene, most significant bit first, as a byte
Draws(byte) ==
    [k \in 1..8 |-> BitAnd(byte, <<128, 64, 32, 16, 8, 4, 2, 1>>[k]) # 0]

\* the inner loop of reproduce: for _ in 0..8, one crossover draw (picks) and
\* one mutation draw (flips) per bit, mask going from 128 down
RECURSIVE BitLoop(_, _, _, _, _, _)
BitLoop(gene1, gene2, picks, flips, mask, number) ==
    IF picks = <<>> THEN number
    ELSE LET crossed == IF Head(picks)
                        THEN OrBit(number, BitAnd(gene1, mask), mask)
                        ELSE OrBit(number, BitAnd(gene2, mask), mask)
             mutated == IF Head(flips) THEN XorMask(crossed, mask) ELSE crossed
         IN  BitLoop(gene1, gene2, Tail(picks), Tail(flips), mask \div 2, mutated)

\* the crossover draws explored for a gene: all from parent 1, all from
\* parent 2, alternating
PickChoices == {Draws(255), Draws(0), Draws(170)}

\* the mutation draws explored for a gene when the draw is free: none, the
\* two outer bits
FlipChoices == {Draws(0), Draws(129)}

\* genes the generator mutates in one call when the mutation draw is free
MaxMutatedGenes == 1

\* mutation probabilities handed to reproduce, in percent
MutationChoices == {0, 50, 100}

\* the eight rng.gen_bool(0.5) of a gene
PickDraws ==
    IF GenBool(50) = BOOLEAN THEN PickChoices
    ELSE {[k \in 1..8 |-> b] : b \in GenBool(50)}

\* the eight rng.gen_bool(mutation_probability) of a gene
FlipDraws(p, mutated) ==
    IF GenBool(p) = BOOLEAN
    THEN IF mutated >= MaxMutatedGenes THEN {Draws(0)} ELSE FlipChoices
    ELSE {[k \in 1..8 |-> b] : b \in GenBool(p)}

\* parents handed to reproduce
ParentGenes ==
    {Zeros(GenomeLen), <<195>> \o Zeros(GenomeLen - 2) \o <<129>>}

InitReproduce ==
    /\ mode = "reproduce"
    /\ \E g1 \in ParentGenes, g2 \in ParentGenes, p \in MutationChoices :
          rep = [pc |-> "loop", parent1 |-> with_instructions(g1),
                 parent2 |-> with_instructions(g2), mutation_probability |-> p,
                 i |-> 0, output_vector |-> <<>>, mutated |-> 0]
    /\ VMIdle
    /\ MainIdle
    /\ fit = NoFit
    /\ arith = NoArith
    /\ rnd = NoRnd
    /\ sel = NoSel
    /\ run = NoRun

\* for i in 0..64, mutated to stop one gene early
ReproduceLoopCondShort == rep.i < GenomeLen - 1

\* for i in 0..64
ReproduceLoopCond == rep.i < GenomeLen

\* one pass through the outer loop of reproduce: build and push one gene
ReproduceGene ==
    /\ mode = "reproduce"
    /\ rep.pc = "loop"
    /\ ReproduceLoopCond
    /\ \E picks \in PickDraws, flips \in FlipDraws(rep.mutation_probability, rep.mutated) :
          LET number == BitLoop(At(rep.parent1.genes, rep.i),
                                At(rep.parent2.genes, rep.i), picks, flips, 128, 0)
          IN  rep' = [rep EXCEPT
                        !.output_vector = Append(@, number),
                        !.i = @ + 1,
                        !.mutated = IF flips = Draws(0) THEN @ ELSE @ + 1]
    /\ UNCHANGED <<mode, notRep>>

ReproduceReturn ==
    /\ mode = "reproduce"
    /\ rep.pc = "loop"
    /\ ~ReproduceLoopCond
    /\ rep' = [rep EXCEPT !.pc = "returned"]
    /\ UNCHANGED <<mode, notRep>>

\* bytes rng.gen_range(0..=u8::MAX) is explored to return
RandomBytes == {0, 255}

InitRandom ==
    /\ mode = "random_instructions"
    /\ rnd = [pc |-> "loop", i |-> 0, output |-> Zeros(GenomeLen)]
    /\ VMIdle
    /\ MainIdle
    /\ fit = NoFit
    /\ arith = NoArith
    /\ rep = NoRep
    /\ sel = NoSel
    /\ run = NoRun

\* for i in 0..16
RandomLoopCond == rnd.i < RandomLen

\* output[i] = rng.gen_range(0..=u8::MAX)
RandomByte ==
    /\ mode = "random_instructions"
    /\ rnd.pc = "loop"
    /\ RandomLoopCond
    /\ \E b \in RandomBytes :
          rnd' = [rnd EXCEPT !.output = SetAt(@, rnd.i, b), !.i = @ + 1]
    /\ UNCHANGED <<mode, notRnd>>

RandomReturn ==
    /\ mode = "random_instructions"
    /\ rnd.pc = "loop"
    /\ ~RandomLoopCond
    /\ rnd' = [rnd EXCEPT !.pc = "returned"]
    /\ UNCHANGED <<mode, notRnd>>

\* main.rs 71-81: a chromosome of generation 0 is made of the random bytes
\* (main's random_vector is a copy of random_instructions)
PushRandomChromosome ==
    /\ mode = "random_instructions"
    /\ rnd.pc = "returned"
    /\ main_pc = "idle"
    /\ main_pc' = "current_generation"
    /\ chromosome' = with_instructions(rnd.output)
    /\ UNCHANGED <<mode, notMain>>

\* main.rs 158-166: a chromosome of the new generation is made of the genes
\* reproduce returned
PushChild ==
    /\ mode = "reproduce"
    /\ rep.pc = "returned"
    /\ main_pc = "idle"
    /\ main_pc' = "new_generation"
    /\ chromosome' = with_instructions(rep.output_vector)
    /\ UNCHANGED <<mode, notMain>>

InitGenome == InitReproduce \/ InitRandom

NextGenome ==
    \/ ReproduceGene
    \/ ReproduceReturn
    \/ PushChild
    \/ RandomByte
    \/ RandomReturn
    \/ PushRandomChromosome

SpecGenome == InitGenome /\ [][NextGenome]_vars

----------------------------------------------------------------------------
\* selection_roulette and selection_tournament
\*
\* A population is a sequence of chromosomes of which selection reads the
\* fitness only; a reference to a chromosome is its 0-based position. Fitness
\* values, total_fitness and the draw r are whole numbers of one unit: the
\* cumulative sums are whole, so a draw between two whole numbers selects as
\* the whole number below it does.

\* largest population handed to the selections
MaxPopulation == 3

\* fitness values of the chromosomes handed to the selections
FitnessChoices == {0, 1, 2}

Populations ==
    UNION {[1..n -> {[fitness |-> f] : f \in FitnessChoices}] : n \in 1..MaxPopulation}

\* rng.gen_range(low..=high), high included
GenRangeInclusive(low, high) == low..high

\* rng.gen_range(low..high), high excluded
GenRange(low, high) == low..(high - 1)

\* curr_fitness > r, mutated to >=
RouletteExceedsOrEqual(curr_fitness, r) == curr_fitness >= r

\* if curr_fitness > r
RouletteExceeds(curr_fitness, r) == curr_fitness > r

\* for c in chromosomes { curr_fitness += c.fitness; if curr_fitness > r
\* { selected_parent = Some(c); break; } }, from position k on
RECURSIVE RouletteWalk(_, _, _, _)
RouletteWalk(chromosomes, k, curr_fitness, r) ==
    IF k >= Len(chromosomes) THEN None
    ELSE LET next_fitness == curr_fitness + At(chromosomes, k).fitness
         IN  IF RouletteExceeds(next_fitness, r) THEN k
             ELSE RouletteWalk(chromosomes, k + 1, next_fitness, r)

\* the fallback mutated away: selected_parent stays None
RouletteFallbackMissing(chromosomes, selected_parent) == selected_parent

\* the fallback mutated to chromosomes.first()
RouletteFallbackFirst(chromosomes, selected_parent) ==
    IF selected_parent = None
    THEN (IF Len(chromosomes) = 0 THEN None ELSE 0)
    ELSE selected_parent

\* if selected_parent.is_none() { selected_parent = chromosomes.last(); }
RouletteFallback(chromosomes, selected_parent) ==
    IF selected_parent = None
    THEN (IF Len(chromosomes) = 0 THEN None ELSE Len(chromosomes) - 1)
    ELSE selected_parent

\* index1 wins on >=, a mutation of the comparison
TournamentFirstWinsOrTies(chromosomes, index1, index2) ==
    At(chromosomes, index1).fitness >= At(chromosomes, index2).fitness

\* if chromosomes[index1].fitness > chromosomes[index2].fitness
TournamentFirstWins(chromosomes, index1, index2) ==
    At(chromosomes, index1).fitness > At(chromosomes, index2).fitness

InitSelect ==
    /\ mode = "selection"
    /\ \E method \in {"roulette", "tournament"}, chromosomes \in Populations :
          \E total \in 0..(2 * MaxPopulation) :
             /\ method = "tournament" => total = 0
             /\ sel = [pc |-> "loop", method |-> method, chromosomes |-> chromosomes,
                       total_fitness |-> total, draws |-> <<>>, v |-> <<>>]
    /\ VMIdle
    /\ MainIdle
    /\ fit = NoFit
    /\ arith = NoArith
    /\ rep = NoRep
    /\ rnd = NoRnd
    /\ run = NoRun

\* one pass of `for _ in 0..2` in selection_roulette
RouletteDraw ==
    /\ mode = "selection"
    /\ sel.method = "roulette"
    /\ sel.pc = "loop"
    /\ Len(sel.v) < 2
    /\ \E r \in GenRangeInclusive(0, sel.total_fitness) :
          LET selected_parent ==
                  RouletteFallback(sel.chromosomes,
                                   RouletteWalk(sel.chromosomes, 0, 0, r))
          IN  sel' = [sel EXCEPT
                        !.draws = Append(@, r),
                        \* v.push(selected_parent.unwrap())
                        !.pc = IF selected_parent = None THEN "panicked" ELSE @,
                        !.v = IF selected_parent = None THEN @
                              ELSE Append(@, selected_parent)]
    /\ UNCHANGED <<mode, notSel>>

\* one pass of `for _ in 0..2` in selection_tournament
TournamentDraw ==
    /\ mode = "selection"
    /\ sel.method = "tournament"
    /\ sel.pc = "loop"
    /\ Len(sel.v) < 2
    /\ \E index1 \in GenRange(0, Len(sel.chromosomes)),
          index2 \in GenRange(0, Len(sel.chromosomes)) :
          sel' = [sel EXCEPT
                    !.draws = Append(@, <<index1, index2>>),
                    !.v = IF TournamentFirstWins(sel.chromosomes, index1, index2)
                          THEN Append(@, index1)
                          ELSE Append(@, index2)]
    /\ UNCHANGED <<mode, notSel>>

\* return (v[0], v[1])
SelectReturn ==
    /\ mode = "selection"
    /\ sel.pc = "loop"
    /\ Len(sel.v) = 2
    /\ sel' = [sel EXCEPT !.pc = "returned"]
    /\ UNCHANGED <<mode, notSel>>

NextSelect == RouletteDraw \/ TournamentDraw \/ SelectReturn

SpecSelect == InitSelect /\ [][NextSelect]_vars

----------------------------------------------------------------------------
\* main, from its command line to the generation loop

\* The command line is a vector of decimal numerals, each held as the number
\* it spells; args[0], the program's path, is never parsed and is held as 0.
MaxArgs == 6

\* the largest subject count on the explored command lines
MaxSubjects == 23

\* the generation loop is followed for this many generations
MaxGenerations == 3

SubjectChoices == 19..MaxSubjects

TargetChoices == {0, 1, 2}

\* the mutation probability in percent
MutationArgChoices == {0, 100}

MethodChoices == {0, 1, 2, 256}

ArgChoices(i) ==
    CASE i = 1 -> SubjectChoices
      [] i = 2 -> TargetChoices
      [] i = 3 -> MutationArgChoices
      [] i = 4 -> MethodChoices
      [] OTHER -> {0}

\* the command lines of n words
RECURSIVE ArgListsOfLen(_)
ArgListsOfLen(n) ==
    IF n = 0 THEN {<<>>}
    ELSE {Append(a, x) : a \in ArgListsOfLen(n - 1), x \in ArgChoices(n - 1)}

ArgLists == UNION {ArgListsOfLen(n) : n \in 1..MaxArgs}

\* str::parse::<u32> is Ok on the numerals of 0..u32::MAX
IsU32(a) == a >= 0

\* str::parse::<u8> is Ok on the numerals of 0..255
IsU8(a) == a \in 0..U8Max

\* u32::MAX, held as the largest integer of the model: it is only compared
\* with the generation counter
U32_MAX == 2147483647

InitProgram ==
    /\ mode = "program"
    /\ \E args \in ArgLists : run = [NoRun EXCEPT !.pc = "args", !.args = args]
    /\ VMIdle
    /\ MainIdle
    /\ fit = NoFit
    /\ arith = NoArith
    /\ rep = NoRep
    /\ rnd = NoRnd
    /\ sel = NoSel

\* eprintln!(...); return;
Exit(message) ==
    run' = [run EXCEPT !.pc = "exited", !.stderr = Append(@, message)]

\* an index out of bounds, or unwrap() on an Err: the thread panics
Panicked(message) ==
    run' = [run EXCEPT !.pc = "panicked", !.stderr = Append(@, message)]

\* main.rs 24-47: the arguments are counted, parsed and checked
CheckArgs ==
    /\ mode = "program"
    /\ run.pc = "args"
    /\ LET args == run.args
       IN  IF Len(args) < 4 THEN Exit("Too few arguments!")
           ELSE IF ~IsU32(At(args, 1)) THEN Panicked("unwrap: subjects_num")
           ELSE IF At(args, 1) < 20 THEN Exit("Minimum number of subjects is 20!")
           ELSE IF ~IsU32(At(args, 2)) THEN Panicked("unwrap: target_generations")
           ELSE IF At(args, 2) < 1 THEN Exit("Minimum number of generations is 1!")
           ELSE IF ~InVec(args, 4) THEN Panicked("index out of bounds: args[4]")
           ELSE IF ~IsU8(At(args, 4)) THEN Panicked("unwrap: selection_method")
           ELSE IF At(args, 4) > 1 THEN Exit("Invalid selection method!")
           ELSE run' = [run EXCEPT !.pc = "build_game_area",
                                   !.subjects_num = At(args, 1),
                                   !.target_generations = At(args, 2),
                                   !.mutation_probability = At(args, 3),
                                   !.selection_method = At(args, 4)]
    /\ UNCHANGED <<mode, notRun>>

\* main.rs 49-67: the grid is built and scanned
BuildGameArea ==
    /\ mode = "program"
    /\ run.pc = "build_game_area"
    /\ run' = [run EXCEPT
                  !.pc = "first_generation",
                  !.player_x = ScanPlayer(build_game_area)[1],
                  !.player_y = ScanPlayer(build_game_area)[2],
                  !.treasures = CountTiles(build_game_area, AREA_TILE_TREASURE)]
    /\ UNCHANGED <<mode, notRun>>

\* A chromosome of the generation loop is held as the generation it was made
\* for and whether it has been run; its genes and its score are the subject
\* of the machine's, the genome's and the selection's specifications.
NewChromosome(generation) == [born |-> generation, evaluated |-> FALSE]

\* main.rs 69-83: subjects_num random chromosomes
FirstGeneration ==
    /\ mode = "program"
    /\ run.pc = "first_generation"
    /\ run' = [run EXCEPT
                  !.pc = "loop",
                  !.current_generation =
                      [i \in 1..run.subjects_num |-> NewChromosome(1)],
                  !.generations = 0]
    /\ UNCHANGED <<mode, notRun>>

\* main.rs 86-101: past the target the user is asked whether to go on; the
\* generation counter is advanced
LoopTop ==
    /\ mode = "program"
    /\ run.pc = "loop"
    /\ run.generations < MaxGenerations
    /\ IF run.generations > run.target_generations - 1
       THEN \E ans \in {"y", "n"} :
               IF ans # "y"
               THEN run' = [run EXCEPT !.pc = "returned"]
               ELSE run' = [run EXCEPT !.pc = "evaluate",
                                       !.target_generations = U32_MAX,
                                       !.generations = @ + 1]
       ELSE run' = [run EXCEPT !.pc = "evaluate", !.generations = @ + 1]
    /\ UNCHANGED <<mode, notRun>>

\* main.rs 112-144: every chromosome is run and scored, the generation is
\* sorted and summed; for a chromosome that found every treasure and beats
\* the best so far the user is asked whether to go on
EvaluateGeneration ==
    /\ mode = "program"
    /\ run.pc = "evaluate"
    /\ \E asked \in BOOLEAN, ans \in {"y", "n"} :
          LET evaluated == [i \in 1..Len(run.current_generation) |->
                               [run.current_generation[i] EXCEPT !.evaluated = TRUE]]
          IN  IF asked /\ ans # "y"
              THEN run' = [run EXCEPT !.pc = "returned",
                                      !.current_generation = evaluated]
              ELSE run' = [run EXCEPT !.pc = "offspring",
                                      !.current_generation = evaluated,
                                      !.new_generation = <<>>]
    /\ UNCHANGED <<mode, notRun>>

\* the number of children mutated to NUM_OF_CHILDREN for every pair
OffspringCountUnclamped(subjects_num, len) == NUM_OF_CHILDREN

\* main.rs 154-157: the children of one pair of parents
OffspringCount(subjects_num, len) ==
    IF subjects_num - len > NUM_OF_CHILDREN
    THEN NUM_OF_CHILDREN
    ELSE subjects_num - len

\* main.rs 147-167: one pass of the while loop filling new_generation
OffspringPass ==
    /\ mode = "program"
    /\ run.pc = "offspring"
    /\ Len(run.new_generation) < run.subjects_num
    /\ LET children == OffspringCount(run.subjects_num, Len(run.new_generation))
       IN  run' = [run EXCEPT
                      !.new_generation =
                          @ \o [i \in 1..children |->
                                   NewChromosome(run.generations + 1)]]
    /\ UNCHANGED <<mode, notRun>>

AssertionFailed == "assertion failed: new_generation.len() == subjects_num"

\* main.rs 169-176: the assertion on the length, the best so far, and the
\* new generation taking the place of the current one
AssertAndSwap ==
    /\ mode = "program"
    /\ run.pc = "offspring"
    /\ ~(Len(run.new_generation) < run.subjects_num)
    /\ IF Len(run.new_generation) # run.subjects_num
       THEN Panicked(AssertionFailed)
       ELSE run' = [run EXCEPT !.pc = "loop",
                               !.current_generation = run.new_generation,
                               !.new_generation = <<>>]
    /\ UNCHANGED <<mode, notRun>>

NextProgram ==
    \/ CheckArgs
    \/ BuildGameArea
    \/ FirstGeneration
    \/ LoopTop
    \/ EvaluateGeneration
    \/ OffspringPass
    \/ AssertAndSwap

SpecProgram == InitProgram /\ [][NextProgram]_vars

----------------------------------------------------------------------------
\* Claims

\* C1: a run never counts more than 500 iterations, and no instruction fetch
\* and no Increment/Decrement target uses an index outside 0..63: the run
\* never panics on an index, and whenever the loop is about to run its body
\* the instruction pointer and the operand of the fetched byte are in 0..63.
C1_IterationsAndIndexBound ==
    /\ iterations <= MaxIterations
    /\ vm_pc # "panicked"
    /\ (vm_pc = "loop" /\ LoopCond) =>
          /\ curr_instr_index \in 0..(GenomeLen - 1)
          /\ Len(machine_memory) = GenomeLen
          /\ DataOf(At(machine_memory, curr_instr_index)) \in 0..(GenomeLen - 1)

\* C1 witness: a run that used all 500 iterations and returned
C1_Witness ==
    /\ mode = "vm"
    /\ vm_pc = "returned"
    /\ iterations = MaxIterations

\* C2 as stated: the Move that leaves the grid ends the run and is counted in
\* the iteration total; a program starting with 0xC0 run from row 0 returns
\* iterations = 1 and found_treasures = 0.
C2_MoveOutCounted ==
    /\ [][(last_op' = "move_out" /\ vm_pc = "loop") =>
            (vm_pc' = "returned" /\ iterations' = iterations + 1)]_vars
    /\ []((vm_pc = "returned" /\ At(instructions, 0) = 192 /\ start_y = 0
            /\ treasures > 0)
           => (iterations = 1 /\ found_treasures = 0))

\* C2 amended: the Move that leaves the grid ends the run at once, its symbol
\* is in the trace, and the step is not counted in the iteration total; a
\* program starting with 0xC0 run from row 0 returns iterations = 0 and
\* found_treasures = 0.
C2_MoveOutNotCounted ==
    /\ [][(last_op' = "move_out" /\ vm_pc = "loop") =>
            /\ vm_pc' = "returned"
            /\ iterations' = iterations
            /\ found_treasures' = found_treasures
            /\ Len(steps') = Len(steps) + 1]_vars
    /\ []((vm_pc = "returned" /\ At(instructions, 0) = 192 /\ start_y = 0
            /\ treasures > 0)
           => (iterations = 0 /\ found_treasures = 0 /\ steps = <<"H">>))

\* C2 witness: the program starting with 0xC0, run from row 0, has returned
\* on its first Move
C2_Witness ==
    /\ vm_pc = "returned"
    /\ last_op = "move_out"
    /\ At(instructions, 0) = 192
    /\ start_y = 0
    /\ steps = <<"H">>

\* C3 as stated: after k calls on a cell that held n, cyclic_increment_u8 has
\* left (n + k) mod 256 and cyclic_decrement_u8 has left (n - k) mod 256; so
\* increment(255) = 0, decrement(0) = 255, and 256 calls return to n after
\* visiting every value once.
C3_Wraparound ==
    mode = "arith" =>
        arith.value = IF arith.fn = "increment"
                      THEN (arith.n + arith.calls) % 256
                      ELSE (arith.n - arith.calls) % 256

\* C4: for stepCount >= 0, totalTreasures > 0 and treasuresFound <=
\* totalTreasures, calculate_fitness returns max(0, treasuresFound /
\* totalTreasures - 0.005 * stepCount), in units of 1/(200 * totalTreasures):
\* never negative, and 0 whenever treasuresFound = 0 or stepCount >= 200.
C4_FitnessFormula ==
    fit.pc = "returned" =>
        LET raw == 200 * fit.found_treasures - fit.steps * fit.all_treasures
        IN  /\ fit.fitness >= 0
            /\ (raw >= 0 => fit.fitness = raw)
            /\ (raw < 0 => fit.fitness = 0)
            /\ (fit.found_treasures = 0 => fit.fitness = 0)
            /\ (fit.steps >= 200 => fit.fitness = 0)

\* C4 witness: a call with 200 steps or more and every treasure found has
\* returned
C4_Witness ==
    /\ fit.pc = "returned"
    /\ fit.steps >= 200
    /\ fit.found_treasures = fit.all_treasures

\* C5 as stated: calculate_fitness returns f with 0 <= f < 1, and the fitness
\* written onto a chromosome by main's evaluation is below 1.
C5_FitnessBelowOne ==
    /\ fit.pc = "returned" =>
          (0 <= fit.fitness /\ fit.fitness < FitnessDen(fit.all_treasures))
    /\ main_pc = "evaluated" =>
          (0 <= chromosome.fitness /\ chromosome.fitness < FitnessDen(treasures))

\* C5 amended: calculate_fitness returns f with 0 <= f <= 1, and f = 1
\* exactly when stepCount = 0 and treasuresFound = totalTreasures; the
\* fitness written onto a chromosome by main's evaluation is in [0, 1).
C5_FitnessAtMostOne ==
    /\ fit.pc = "returned" =>
          /\ 0 <= fit.fitness
          /\ fit.fitness <= FitnessDen(fit.all_treasures)
          /\ (fit.fitness = FitnessDen(fit.all_treasures)
                <=> (fit.steps = 0 /\ fit.found_treasures = fit.all_treasures))
    /\ main_pc = "evaluated" =>
          (0 <= chromosome.fitness /\ chromosome.fitness < FitnessDen(treasures))

\* C5 witness: main has evaluated a chromosome that found a treasure and
\* scored above 0
C5_Witness ==
    /\ main_pc = "evaluated"
    /\ chromosome.found_treasures >= 1
    /\ chromosome.fitness > 0

\* the bit of value mask is the same in bytes a and b
SameBit(a, b, mask) == BitAnd(a, mask) = BitAnd(b, mask)

\* C6: with mutationProbability = 0, whatever the draws, every bit of every
\* gene reproduce has pushed equals parent1's or parent2's bit at the same
\* gene index and bit position; so reproduce(p1, p1, 0) returns p1's genes.
C6_BitsFromParents ==
    (rep.pc \in {"loop", "returned"} /\ rep.mutation_probability = 0) =>
        /\ \A i \in 0..(Len(rep.output_vector) - 1) :
              \A mask \in {128, 64, 32, 16, 8, 4, 2, 1} :
                 \/ SameBit(At(rep.output_vector, i), At(rep.parent1.genes, i), mask)
                 \/ SameBit(At(rep.output_vector, i), At(rep.parent2.genes, i), mask)
        /\ (rep.pc = "returned" /\ rep.parent1.genes = rep.parent2.genes) =>
              rep.output_vector = rep.parent1.genes

\* C6 witness: reproduce has returned, without mutation, a child of two
\* different parents that is neither parent
C6_Witness ==
    /\ rep.pc = "returned"
    /\ rep.mutation_probability = 0
    /\ rep.output_vector # rep.parent1.genes
    /\ rep.output_vector # rep.parent2.genes

\* C7: every genome has exactly 64 bytes: random_instructions returns 64
\* bytes of which the last 48 are zero, reproduce returns 64 bytes for every
\* pair of parents and every mutation probability, and the chromosomes main
\* puts into generation 0 and into each new generation have 64 genes.
C7_GenomeLength ==
    /\ rnd.pc \in {"loop", "returned"} =>
          /\ Len(rnd.output) = 64
          /\ \A i \in 0..63 : At(rnd.output, i) \in 0..255
          /\ \A i \in 16..63 : At(rnd.output, i) = 0
    /\ rep.pc = "returned" =>
          /\ Len(rep.output_vector) = 64
          /\ \A i \in 0..63 : At(rep.output_vector, i) \in 0..255
    /\ main_pc \in {"current_generation", "new_generation"} =>
          Len(chromosome.genes) = 64

\* C7 witness: main holds a child that mutation changed in some but not all
\* genes
C7_Witness ==
    /\ main_pc = "new_generation"
    /\ rep.mutation_probability = 50
    /\ rep.mutated > 0

\* the sum of the fitness of the first n chromosomes
RECURSIVE CumulativeFitness(_, _)
CumulativeFitness(chromosomes, n) ==
    IF n = 0 THEN 0
    ELSE CumulativeFitness(chromosomes, n - 1) + chromosomes[n].fitness

\* the positions whose cumulative fitness strictly exceeds r
Exceeding(chromosomes, r) ==
    {k \in 0..(Len(chromosomes) - 1) : CumulativeFitness(chromosomes, k + 1) > r}

C9_RouletteWalk ==
    (sel.method = "roulette"
     /\ sel.total_fitness = CumulativeFitness(sel.chromosomes, Len(sel.chromosomes))) =>
        /\ sel.pc # "panicked"
        /\ Len(sel.draws) = Len(sel.v)
        /\ \A k \in 1..Len(sel.v) :
              LET exceeding == Exceeding(sel.chromosomes, sel.draws[k])
              IN  /\ exceeding # {} =>
                        /\ sel.v[k] \in exceeding
                        /\ \A j \in exceeding : sel.v[k] <= j
                  /\ exceeding = {} => sel.v[k] = Len(sel.chromosomes) - 1
                  /\ exceeding = {} <=> sel.draws[k] = sel.total_fitness

\* C9 witness: with a true sum, one parent was found by the walk before the
\* end of the population and the other by the fallback
C9_Witness ==
    /\ sel.method = "roulette"
    /\ sel.pc = "returned"
    /\ sel.total_fitness = CumulativeFitness(sel.chromosomes, Len(sel.chromosomes))
    /\ Len(sel.chromosomes) = 3
    /\ sel.v[1] = 1
    /\ sel.draws[2] = sel.total_fitness
    /\ sel.v[2] = 2

\* C10: in selection_tournament each parent comes from two drawn positions
\* i1, i2: the individual at i1 if its fitness is strictly greater than that
\* at i2, otherwise (ties included) the one at i2; each parent is a member of
\* the population.
C10_TournamentStrict ==
    sel.method = "tournament" =>
        /\ Len(sel.draws) = Len(sel.v)
        /\ \A k \in 1..Len(sel.v) :
              LET i1 == sel.draws[k][1]
                  i2 == sel.draws[k][2]
              IN  /\ sel.v[k] \in 0..(Len(sel.chromosomes) - 1)
                  /\ sel.chromosomes[i1 + 1].fitness > sel.chromosomes[i2 + 1].fitness
                        => sel.v[k] = i1
                  /\ sel.chromosomes[i1 + 1].fitness <= sel.chromosomes[i2 + 1].fitness
                        => sel.v[k] = i2

\* C10 witness: both parents are the same individual, chosen the first time
\* on a tie between two different positions as the second-drawn one
C10_Witness ==
    /\ sel.method = "tournament"
    /\ sel.pc = "returned"
    /\ sel.v[1] = sel.v[2]
    /\ sel.draws[1][1] # sel.draws[1][2]
    /\ sel.chromosomes[sel.draws[1][1] + 1].fitness
         = sel.chromosomes[sel.draws[1][2] + 1].fitness
    /\ sel.v[1] = sel.draws[1][2]

----------------------------------------------------------------------------
\* C11: run on the all-zero program from the start tile (row 6, column 3)
\* with a goal of 5, the machine returns found_treasures = 0,
\* iterations = 64 and an empty trace: every instruction it fetches decodes
\* to Increment on cell 0 (cell 0 counts the steps, the cells 1..63 stay 0)
\* and no Move is executed.
C11_Case ==
    /\ instructions = Zeros(GenomeLen)
    /\ start_x = 3
    /\ start_y = 6
    /\ treasures = 5

C11_AllZeroProgram ==
    (mode = "vm" /\ C11_Case) =>
        /\ last_op \in {"none", "increment", "exit"}
        /\ steps = <<>>
        /\ found_treasures = 0
        /\ At(machine_memory, 0) = iterations
        /\ \A i \in 1..(GenomeLen - 1) : At(machine_memory, i) = 0
        /\ vm_pc \in {"loop", "returned"}
        /\ vm_pc = "returned" => (iterations = GenomeLen /\ last_op = "exit")

C11_Witness ==
    /\ mode = "vm"
    /\ C11_Case
    /\ vm_pc = "returned"
    /\ iterations = 64
    /\ found_treasures = 0
    /\ steps = <<>>

----------------------------------------------------------------------------
\* C12: the grid main gets from build_game_area is 7 rows of 7 tiles with
\* exactly 5 Treasure tiles and exactly 1 PlayerStart tile, every other tile
\* Empty; the scan of it counts 5 treasures and finds the player at row 6,
\* column 3; the grid main holds stays that grid while chromosomes are run.
TilesOf(area, tile) ==
    {yx \in (0..(Len(area) - 1)) \X (0..(AreaSize - 1)) :
        At(At(area, yx[1]), yx[2]) = tile}

C12_GameArea ==
    mode = "main" =>
        /\ Len(original_game_area) = 7
        /\ \A y \in 1..7 : Len(original_game_area[y]) = 7
        /\ Cardinality(TilesOf(original_game_area, AREA_TILE_TREASURE)) = 5
        /\ TilesOf(original_game_area, AREA_TILE_PLAYER) = {<<6, 3>>}
        /\ Cardinality(TilesOf(original_game_area, AREA_TILE_NOTHING)) = 49 - 6
        /\ original_game_area = build_game_area
        /\ treasures = 5
        /\ <<start_y, start_x>> = <<6, 3>>

C12_Witness ==
    /\ mode = "main"
    /\ main_pc = "evaluated"
    /\ treasures = 5
    /\ TilesOf(original_game_area, AREA_TILE_TREASURE)
         = {<<1, 4>>, <<2, 2>>, <<3, 6>>, <<4, 1>>, <<5, 4>>}

----------------------------------------------------------------------------
\* C13: treasures are one-shot. found_treasures is the number of distinct
\* treasure tiles the player has moved onto so far: a collected tile is
\* cleared, so moving onto it again leaves found_treasures unchanged, and
\* found_treasures never exceeds the number of treasure tiles of the grid.

\* the tile a Move with trace symbol s leads to from tile p = <<y, x>>
Moved(p, s) ==
    CASE s = "H" -> <<p[1] - 1, p[2]>>
      [] s = "D" -> <<p[1] + 1, p[2]>>
      [] s = "P" -> <<p[1], p[2] + 1>>
      [] s = "L" -> <<p[1], p[2] - 1>>

\* the tiles moved onto by the trace symbols n.. from tile p, added to acc
RECURSIVE VisitedFrom(_, _, _)
VisitedFrom(n, p, acc) ==
    IF n > Len(steps) THEN acc
    ELSE VisitedFrom(n + 1, Moved(p, steps[n]), acc \cup {Moved(p, steps[n])})

\* the tiles moved onto before the last Move
RECURSIVE VisitedBefore(_, _, _)
VisitedBefore(n, p, acc) ==
    IF n >= Len(steps) THEN acc
    ELSE VisitedBefore(n + 1, Moved(p, steps[n]), acc \cup {Moved(p, steps[n])})

\* the treasure tiles of the caller's grid the player has moved onto
VisitedTreasures ==
    VisitedFrom(1, <<start_y, start_x>>, {})
        \cap TilesOf(original_game_area, AREA_TILE_TREASURE)

\* the treasure tiles of the grid every run starts from
TreasureTiles == TilesOf(build_game_area, AREA_TILE_TREASURE)

\* the treasure tiles of the caller's grid that the run has cleared so far
Collected ==
    {t \in TreasureTiles : game_area[t[1] + 1][t[2] + 1] # AREA_TILE_TREASURE}

C13_TreasuresOneShot ==
    /\ [](mode = "vm" =>
            /\ found_treasures = Cardinality(Collected)
            /\ found_treasures <= Cardinality(TreasureTiles)
            /\ vm_pc = "returned" =>
                  /\ Collected = VisitedTreasures
                  /\ TilesOf(game_area, AREA_TILE_TREASURE)
                       = TilesOf(original_game_area, AREA_TILE_TREASURE) \ Collected)
    /\ [][mode = "vm" =>
            IF last_op' = "move" /\ vm_pc' = "loop"
            THEN /\ Collected' = Collected
                                \cup ({<<player_y', player_x'>>} \cap TreasureTiles)
                 /\ found_treasures' = Cardinality(Collected')
            ELSE found_treasures' = found_treasures]_vars

\* the player has moved onto a treasure tile for the second time
C13_Witness ==
    /\ mode = "vm"
    /\ last_op = "move"
    /\ <<player_y, player_x>> \in VisitedTreasures
    /\ <<player_y, player_x>> \in VisitedBefore(1, <<start_y, start_x>>, {})
    /\ found_treasures = 1

----------------------------------------------------------------------------
\* C14: in every completed step, a Jump sets the instruction pointer to
\* exactly its 6-bit operand, without the automatic advance and without
\* changing a memory cell; every other instruction advances the instruction
\* pointer by exactly 1; and the iteration counter grows by exactly 1.
C14_StepAdvance ==
    [][(mode = "vm" /\ vm_pc = "loop" /\ vm_pc' = "loop") =>
        LET instruction == At(machine_memory, curr_instr_index)
        IN  /\ iterations' = iterations + 1
            /\ IF instruction \div 64 = 2
               THEN /\ curr_instr_index' = instruction - 128
                    /\ curr_instr_index' \in 0..63
                    /\ machine_memory' = machine_memory
               ELSE curr_instr_index' = curr_instr_index + 1]_vars

\* a Jump to cell 1 has been executed
C14_Witness ==
    /\ mode = "vm"
    /\ last_op = "jump"
    /\ vm_pc = "loop"
    /\ curr_instr_index = 1
    /\ iterations >= 2
    /\ machine_memory = instructions

----------------------------------------------------------------------------
\* C15: every run of the machine terminates, jump cycles included; when it
\* has returned, at least one halt predicate holds (iterations = 500,
\* instruction pointer >= 64, found_treasures = goal, or the last Move left
\* the grid); and no step is executed once one of the first three holds.
HaltBeforeStep ==
    \/ iterations = MaxIterations
    \/ curr_instr_index >= GenomeLen
    \/ found_treasures = treasures

C15_Terminates ==
    /\ <>(vm_pc = "returned")
    /\ [](vm_pc = "returned" =>
            \/ HaltBeforeStep
            \/ /\ last_op = "move_out"
               /\ ~InArea(player_x, player_y)
               /\ steps # <<>>)
    /\ [][HaltBeforeStep =>
            /\ vm_pc' = "returned"
            /\ UNCHANGED <<game_area, machine_memory, curr_instr_index,
                           iterations, found_treasures, player_x, player_y,
                           steps>>]_vars

\* a jump cycle has been cut off by the cap on the iterations
C15_Witness ==
    /\ vm_pc = "returned"
    /\ iterations = MaxIterations
    /\ curr_instr_index < GenomeLen
    /\ found_treasures < treasures
    /\ last_op = "exit"

----------------------------------------------------------------------------
\* C16: run_virtual_machine leaves the caller's instruction array and the
\* caller's grid unchanged, and a second run on the same genome and grid
\* from the same start returns the same iterations, found_treasures and
\* trace as the first.
C16_CallerUnchanged ==
    /\ [][instructions' = instructions
          /\ original_game_area' = original_game_area]_vars
    /\ [](/\ instructions = chromosome.genes
          /\ original_game_area = build_game_area)
    /\ []((main_pc = "run_again" /\ vm_pc = "returned") =>
            /\ iterations = chromosome.iterations
            /\ found_treasures = chromosome.found_treasures
            /\ steps = chromosome.steps)

\* the second run has returned; the first had written to both of its clones
C16_Witness ==
    /\ main_pc = "run_again"
    /\ vm_pc = "returned"
    /\ found_treasures = 1
    /\ machine_memory # instructions
    /\ game_area # original_game_area
    /\ steps = chromosome.steps

----------------------------------------------------------------------------
\* C17: the grid is read and written only at positions inside the grid.
\* The bounds check runs between the position update and the tile access,
\* so a Move that leaves the grid returns before the grid is indexed, and no
\* grid index is ever out of range.
C17_GridAccessInArea ==
    mode = "vm" =>
        /\ vm_pc # "panicked"
        /\ last_op = "move" =>
              /\ player_x \in 0..(AreaSize - 1)
              /\ player_y \in 0..(AreaSize - 1)
        /\ last_op = "move_out" =>
              /\ ~(player_x \in 0..(AreaSize - 1) /\ player_y \in 0..(AreaSize - 1))
              /\ vm_pc = "returned"
        /\ Len(game_area) = AreaSize
        /\ \A y \in 1..AreaSize : Len(game_area[y]) = AreaSize

\* the fourth Move to the left from column 3 has left the grid at column -1
C17_Witness ==
    /\ mode = "vm"
    /\ last_op = "move_out"
    /\ player_x = -1
    /\ steps = <<"L", "L", "L", "L">>
    /\ game_area = original_game_area

----------------------------------------------------------------------------
\* C18 as stated: on a command line with fewer than the four required
\* values, a subject count below 20, a generation target below 1 or a
\* selection-method code above 1, the program prints a diagnostic and
\* returns: it does not panic and it does not enter the generation loop.
C18_Case ==
    \/ Len(run.args) < 5
    \/ At(run.args, 1) < 20
    \/ At(run.args, 2) < 1
    \/ At(run.args, 4) > 1

C18_OrderlyExit ==
    (mode = "program" /\ C18_Case) =>
        /\ run.pc \in {"args", "exited"}
        /\ run.pc = "exited" => run.stderr # <<>>

----------------------------------------------------------------------------
\* C19: the population size is constant across generations. For every
\* subject count N >= 20, odd or even, the offspring loop (at most
\* NUM_OF_CHILDREN = 2 children per pair of parents) ends with exactly N
\* chromosomes, the assertion on the length never fails, and the generation
\* evaluated next has N chromosomes again.
C19_PopulationSize ==
    (mode = "program" /\ run.pc \notin {"args", "exited"}) =>
        /\ AssertionFailed \notin {run.stderr[i] : i \in 1..Len(run.stderr)}
        /\ run.pc \in {"loop", "evaluate", "offspring", "returned"} =>
              /\ run.subjects_num >= 20
              /\ Len(run.current_generation) = run.subjects_num
        /\ Len(run.new_generation) <= run.subjects_num
        /\ (run.pc = "evaluate" /\ run.generations > 1) =>
              \A i \in 1..Len(run.current_generation) :
                  run.current_generation[i] = NewChromosome(run.generations)

\* the third generation of a run with 21 subjects has been made and has
\* taken the place of the second
C19_Witness ==
    /\ mode = "program"
    /\ run.pc = "loop"
    /\ run.subjects_num = 21
    /\ run.generations = 2
    /\ Len(run.current_generation) = 21
    /\ run.current_generation[21] = NewChromosome(3)

----------------------------------------------------------------------------
\* C20: when every individual of a non-empty population has fitness 0, so
\* that total_fitness is 0, selection_roulette returns the last individual
\* of the population as both parents whatever is drawn: the only draw is 0,
\* no cumulative fitness exceeds it, and the fallback gives the last one.
C20_Case ==
    /\ sel.method = "roulette"
    /\ Len(sel.chromosomes) >= 1
    /\ \A i \in 1..Len(sel.chromosomes) : sel.chromosomes[i].fitness = 0
    /\ sel.total_fitness = CumulativeFitness(sel.chromosomes, Len(sel.chromosomes))

C20_RouletteAllZero ==
    C20_Case =>
        /\ sel.total_fitness = 0
        /\ sel.pc # "panicked"
        /\ Exceeding(sel.chromosomes, 0) = {}
        /\ \A k \in 1..Len(sel.v) : sel.v[k] = Len(sel.chromosomes) - 1
        /\ sel.pc = "returned" => Len(sel.v) = 2

\* both parents of a population of three individuals of fitness 0 are drawn
C20_Witness ==
    /\ C20_Case
    /\ sel.pc = "returned"
    /\ Len(sel.chromosomes) = 3
    /\ sel.v = <<2, 2>>

====
